---------------------------- MODULE Spec2Model ----------------------------
(***************************************************************************)
(* Model of the MultiPaste operator of DALI.                               *)
(*                                                                         *)
(*   - MultiPasteCpu::SetupImpl and RunImpl                                *)
(*     (dali/operators/image/paste/multipaste.cc): the type dispatch, the  *)
(*     host loop that zeroes every output canvas and submits paste work    *)
(*     to the thread pool, and the work items the pool runs.               *)
(*   - paste::PasteKernel (dali/kernels/imgproc/paste/paste_gpu.h): the    *)
(*     per-thread scan of a work block with the grid cursors.              *)
(*   - kernels::PasteGPU (the same file): Setup, Run and the packing of    *)
(*     the descriptors in paste::CreateSampleDescriptors.                  *)
(*                                                                         *)
(* Coordinates are written <<y, x>>: component [0] of the source's         *)
(* vectors is [1] here and component [1] is [2].                           *)
(***************************************************************************)
EXTENDS Integers, Sequences, FiniteSets, TLC

(***************************************************************************)
(* Bounds of the CPU model.                                                *)
(***************************************************************************)
\* Largest number of paste iterations in the whole batch.
MaxPaste == 2
\* Number of workers of the thread pool.
NumThreads == 2

\* Samples of the batch (the images are the inputs of the same batch).
Samples == {0, 1}
\* <<H, W, C>> of every output canvas and of every input image.
OutShape == <<2, 2, 1>>
InShape == <<2, 2, 1>>
\* The selection shapes <<h, w>> and the output anchors <<y, x>> the paste
\* arguments are drawn from: the two rows and the first column of a canvas.
PasteShapes == {<<1, 2>>, <<2, 1>>}
OutAnchors == {<<0, 0>>, <<1, 0>>}
\* The input element types the batches are drawn from.
InputTypes == {"uint8", "int16", "float64"}

(***************************************************************************)
(* Element types.                                                          *)
(***************************************************************************)
TypeIds == {"uint8", "int16", "int32", "float", "float64"}

\* DALI_NO_TYPE: the dtype argument that is not set, and output_type_ before
\* the first AcquireArguments.
NoType == "no_type"

\* The types TYPE_SWITCH lists, for the input and for the output.
SupportedTypes == {"uint8", "int16", "int32", "float"}

SizeOf(t) ==
  CASE t = "uint8" -> 1
    [] t = "int16" -> 2
    [] t = "int32" -> 4
    [] t = "float" -> 4
    [] OTHER -> 8

TypeMin(t) ==
  CASE t = "uint8" -> 0
    [] t = "int16" -> -32768
    [] OTHER -> -2147483647 - 1

TypeMax(t) ==
  CASE t = "uint8" -> 255
    [] t = "int16" -> 32767
    [] OTHER -> 2147483647

\* Saturating conversion of an integral value to type t (float keeps it).
ConvertSat(t, v) ==
  IF t = "float" THEN v
  ELSE IF v < TypeMin(t) THEN TypeMin(t)
  ELSE IF v > TypeMax(t) THEN TypeMax(t)
  ELSE v

\* What an output buffer holds before RunImpl: unknown, not zero.
Uninit == -99

(***************************************************************************)
(* Geometry.                                                               *)
(***************************************************************************)
Volume(sh) == sh[1] * sh[2] * sh[3]

\* Flattened index of element (y, x, c) of an HWC tensor of shape sh.
Offset(sh, y, x, c) == (y * sh[2] + x) * sh[3] + c

\* Content of input image k of element type t at (y, x, c).
ImagePixel(t, k, y, x, c) ==
  IF t # "uint8" /\ y = 1 /\ x = 1
  THEN (IF k = 0 THEN 300 ELSE -5)
  ELSE 10 * (k + 1) + 4 * c + 2 * y + x

\* The destination rectangle of a paste iteration, as a set of <<y, x>>.
DestRect(p) ==
  {<<y, x>> \in (p.out_anchor[1] .. p.out_anchor[1] + p.shape[1] - 1)
               \X (p.out_anchor[2] .. p.out_anchor[2] + p.shape[2] - 1) : TRUE}

Intersects(p, q) == DestRect(p) \cap DestRect(q) # {}

\* The paste iterations a sample's arguments are drawn from: every
\* selection that lies inside its input image; the destination rectangle
\* may reach over the edge of the canvas.
PasteArgs ==
  {p \in [in_idx : Samples, in_anchor : {<<0, 0>>},
          shape : PasteShapes,
          out_anchor : OutAnchors] :
     /\ p.in_anchor[1] + p.shape[1] <= InShape[1]
     /\ p.in_anchor[2] + p.shape[2] <= InShape[2]}

\* The destination rectangle of p lies inside the canvas.
InCanvas(p) ==
  /\ p.out_anchor[1] >= 0
  /\ p.out_anchor[2] >= 0
  /\ p.out_anchor[1] + p.shape[1] <= OutShape[1]
  /\ p.out_anchor[2] + p.shape[2] <= OutShape[2]

\* The per-sample flag: the destination rectangles are pairwise disjoint.
NoIntersections(l) ==
  \A j \in 1 .. Len(l) : \A k \in 1 .. j - 1 : ~Intersects(l[j], l[k])

\* The paste arguments of the samples in S with at most n iterations in all.
RECURSIVE PasteBatches(_, _)
PasteBatches(S, n) ==
  IF S = {} THEN {<<>>}
  ELSE LET s == CHOOSE s \in S : TRUE
       IN UNION {{(s :> l) @@ rest : rest \in PasteBatches(S \ {s}, n - Len(l))} :
                 l \in UNION {[1 .. m -> PasteArgs] : m \in 0 .. n}}

(***************************************************************************)
(* State of MultiPasteCpu::RunImpl and of the thread pool.                 *)
(***************************************************************************)
VARIABLES
  input_type,        \* images.type().id()
  output_type_arg,   \* output_type_arg_, the dtype argument
  output_type,       \* output_type_
  pastes,            \* in_idx_, in anchors, shapes, out anchors of each sample
  no_intersections,  \* no_intersections_
  output,            \* the output canvases, flattened HWC
  mainpc,            \* position of the thread that runs RunImpl
  i,                 \* loop variable i of RunImpl
  iter,              \* loop variable iter of the submitting loop
  work,              \* work items submitted with AddWork, in order
  work_state,        \* "queued", "running" or "done", per work item
  worker,            \* what each worker of the pool is running
  performed,         \* per work item, the iterations it has completed
  iter_state,        \* per sample and iteration: "idle", "running", "done"
  zeroed,            \* samples whose memset has returned
  last_write         \* the last element written by a work item

cpu_vars == <<input_type, output_type_arg, output_type, pastes, no_intersections, output,
              mainpc, i, iter, work, work_state, worker, performed,
              iter_state, zeroed, last_write>>

(***************************************************************************)
(* State of a launch of paste::PasteKernel.                                *)
(***************************************************************************)
VARIABLES
  samples,        \* the SampleDescriptorGPU array
  grid_cells,     \* the GridCellGPU array
  blocks,         \* the BlockDesc array
  blockDim,       \* <<x, y>>
  k_type,         \* OutputType of the instantiation
  k_out,          \* the output canvases, flattened
  k_writers,      \* per sample and position, the threads that stored to it
  k_reads,        \* per sample and position, the source reads of its stores
  lane,           \* the thread each lane executes
  k_next,         \* number of threads issued so far
  k_fault         \* the launch was aborted by a fault

gpu_vars == <<samples, grid_cells, blocks, blockDim, k_type, k_out,
              k_writers, k_reads, lane, k_next, k_fault>>

(***************************************************************************)
(* State of a PasteGPU object and of what its caller sees of its calls.    *)
(***************************************************************************)
VARIABLES
  sample_descriptors,     \* sample_descriptors_
  grid_cell_descriptors,  \* grid_cell_descriptors_
  block_setup,            \* block_setup_.Blocks().size()
  scratch_sizes,          \* req.scratch_sizes of the last Setup that returned
  scratch,                \* what ToContiguousGPU last copied to the scratchpad
  launches,               \* number of launches of PasteKernel
  e_call,                 \* the last call and its arguments
  e_result,               \* how the last call ended
  e_written,              \* descriptor indices the last call wrote
  e_calls,                \* number of calls so far
  ndebug                  \* the build has NDEBUG (assert compiled out)

eng_vars == <<sample_descriptors, grid_cell_descriptors, block_setup,
              scratch_sizes, scratch, launches, e_call, e_result, e_written,
              e_calls, ndebug>>

(***************************************************************************)
(* State of a SliceAttr object and of the calls made on it.                *)
(***************************************************************************)
VARIABLES
  s_pc,         \* what has been called so far and how it ended
  s_has,        \* IsDefined() of start_, rel_start_, end_, rel_end_, shape_, rel_shape_
  s_axes,       \* the listed axes (axes_ or the indices of axis_names_)
  s_norm,       \* normalized_anchor_, normalized_shape_
  s_ninput,     \* ws.NumInput() of the ProcessArguments call
  s_mode,       \* which generator ProcessArguments installed
  s_named,      \* the data of the acquired named arguments
  s_pos,        \* the type and data of the anchor and shape inputs
  s_in_shape,   \* the shape the generator was called with
  s_status,     \* how the call of the generator ended
  s_window      \* the CropWindow it returned

slice_vars == <<s_pc, s_has, s_axes, s_norm, s_ninput, s_mode, s_named, s_pos,
                s_in_shape, s_status, s_window>>

Workers == 1 .. NumThreads

Idle == [item |-> 0, iter |-> 0, pos |-> 0]

NoWrite == [by |-> -1, from |-> -1, buf |-> -1, idx |-> -1]

CpuInit ==
  /\ input_type \in InputTypes
  /\ output_type_arg \in TypeIds \cup {NoType}
  /\ output_type = NoType
  /\ pastes \in PasteBatches(Samples, MaxPaste)
  /\ no_intersections = [s \in Samples |-> NoIntersections(pastes[s])]
  /\ output = [s \in Samples |-> [e \in 0 .. Volume(OutShape) - 1 |-> Uninit]]
  /\ mainpc = "setup"
  /\ i = 0
  /\ iter = 0
  /\ work = <<>>
  /\ work_state = <<>>
  /\ worker = [w \in Workers |-> Idle]
  /\ performed = <<>>
  /\ iter_state = [s \in Samples |-> [k \in 1 .. Len(pastes[s]) |-> "idle"]]
  /\ zeroed = {}
  /\ last_write = NoWrite

(***************************************************************************)
(* The thread that runs RunImpl.                                           *)
(***************************************************************************)
batch_size == Cardinality(Samples)

PasteCountShort(s) == IF Len(pastes[s]) > 0 THEN Len(pastes[s]) - 1 ELSE 0
paste_count(s) == Len(pastes[s])

\* TYPE_SWITCH over the input type and over the output type.
TypeSwitch(in_t, out_t) == in_t \in SupportedTypes /\ out_t \in SupportedTypes

\* The byte count RunImpl hands to memset for canvas s.
ZeroBytes(s) == OutShape[1] * OutShape[2] * OutShape[3]

\* The canvas memset writes for loop index s.
ZeroTargetWrong(s) == (s + 1) % batch_size
ZeroTarget(s) == s

\* memset(data, 0, n) on a buffer of elements of type t: the elements that
\* lie wholly inside the first n bytes become 0, an element it covers in
\* part keeps unknown content.
Memset(buf, t, n) ==
  [e \in DOMAIN buf |-> IF (e + 1) * SizeOf(t) <= n THEN 0 ELSE buf[e]]

\* The branch RunImpl takes for sample s.
ParallelPathAlways(s) == TRUE
ParallelPath(s) == no_intersections[s]

\* The iteration a per-iteration work item captures.
CapturedIterFirst(k) == 0
CapturedIter(k) == k

\* Where the thread goes after the work of sample s is submitted: to the
\* next sample, or to tp.RunAll().
AfterSampleNoWait(s) == IF s + 1 < batch_size THEN "zero" ELSE "returned"
AfterSample(s) == IF s + 1 < batch_size THEN "zero" ELSE "runall"

\* AcquireArguments: the output type is the dtype argument when it is set
\* and the input type otherwise.
ResolvedTypeArgOnly(arg, in_t) == arg
ResolvedType(arg, in_t) == IF arg # NoType THEN arg ELSE in_t

\* The check of the paste arguments in AcquireArguments: every destination
\* rectangle lies inside its canvas.
ArgumentsValid ==
  \A s \in Samples : \A k \in 1 .. Len(pastes[s]) : InCanvas(pastes[s][k])

\* Whether SetupImpl fails before or at its TYPE_SWITCH.
SetupFailsOnTypes(valid, in_t, out_t) == ~TypeSwitch(in_t, out_t)
SetupFails(valid, in_t, out_t) == ~valid \/ ~TypeSwitch(in_t, out_t)

\* SetupImpl: AcquireArguments, then the TYPE_SWITCH that describes the
\* output; RunImpl is entered only when SetupImpl has returned.
SetupImpl ==
  /\ mainpc = "setup"
  /\ output_type' = ResolvedType(output_type_arg, input_type)
  /\ mainpc' = IF SetupFails(ArgumentsValid, input_type, output_type')
               THEN "failed" ELSE "dispatch"
  /\ UNCHANGED <<input_type, output_type_arg, pastes, no_intersections,
                 output, i, iter, work, work_state, worker, performed,
                 iter_state, zeroed, last_write>>
  /\ UNCHANGED <<gpu_vars, eng_vars, slice_vars>>

Dispatch ==
  /\ mainpc = "dispatch"
  /\ mainpc' = IF TypeSwitch(input_type, output_type) THEN "zero" ELSE "failed"
  /\ UNCHANGED <<input_type, output_type_arg, output_type, pastes,
                 no_intersections, output,
                 i, iter, work, work_state, worker, performed, iter_state,
                 zeroed, last_write>>
  /\ UNCHANGED <<gpu_vars, eng_vars, slice_vars>>

\* memset of canvas i, then the choice of the branch.
ZeroCanvas ==
  /\ mainpc = "zero"
  /\ output' = [output EXCEPT ![ZeroTarget(i)] =
                  Memset(output[ZeroTarget(i)], output_type, ZeroBytes(i))]
  /\ zeroed' = zeroed \cup {ZeroTarget(i)}
  /\ iter' = 0
  /\ IF ParallelPath(i) /\ paste_count(i) = 0
     THEN /\ mainpc' = AfterSample(i)
          /\ i' = i + 1
     ELSE /\ mainpc' = "submit"
          /\ i' = i
  /\ UNCHANGED <<input_type, output_type_arg, output_type, pastes,
                 no_intersections, work,
                 work_state, worker, performed, iter_state, last_write>>
  /\ UNCHANGED <<gpu_vars, eng_vars, slice_vars>>

\* The work item of the else branch: the iterations 0 .. paste_count - 1.
AllItemFirstOnly(s) ==
  [kind |-> "all", sample |-> s, iter |-> 0, paste_count |-> 1,
   priority |-> paste_count(s)]
AllItem(s) ==
  [kind |-> "all", sample |-> s, iter |-> 0, paste_count |-> paste_count(s),
   priority |-> paste_count(s)]

\* tp.AddWork of one paste iteration (the no_intersections_ branch).
AddWorkIter ==
  /\ mainpc = "submit"
  /\ ParallelPath(i)
  /\ iter < paste_count(i)
  /\ work' = Append(work, [kind |-> "iter", sample |-> i,
                           iter |-> CapturedIter(iter),
                           paste_count |-> 1,
                           priority |-> Volume(OutShape)])
  /\ work_state' = Append(work_state, "queued")
  /\ performed' = Append(performed, <<>>)
  /\ IF iter + 1 < paste_count(i)
     THEN /\ iter' = iter + 1
          /\ UNCHANGED <<mainpc, i>>
     ELSE /\ iter' = 0
          /\ mainpc' = AfterSample(i)
          /\ i' = i + 1
  /\ UNCHANGED <<input_type, output_type_arg, output_type, pastes,
                 no_intersections, output,
                 worker, iter_state, zeroed, last_write>>
  /\ UNCHANGED <<gpu_vars, eng_vars, slice_vars>>

\* tp.AddWork of all the iterations of sample i (the else branch).
AddWorkAll ==
  /\ mainpc = "submit"
  /\ ~ParallelPath(i)
  /\ work' = Append(work, AllItem(i))
  /\ work_state' = Append(work_state, "queued")
  /\ performed' = Append(performed, <<>>)
  /\ iter' = 0
  /\ mainpc' = AfterSample(i)
  /\ i' = i + 1
  /\ UNCHANGED <<input_type, output_type_arg, output_type, pastes,
                 no_intersections, output,
                 worker, iter_state, zeroed, last_write>>
  /\ UNCHANGED <<gpu_vars, eng_vars, slice_vars>>

AllDone == \A k \in 1 .. Len(work) : work_state[k] = "done"

\* tp.RunAll(): returns when every submitted work item has completed.
RunAll ==
  /\ mainpc = "runall"
  /\ AllDone
  /\ mainpc' = "returned"
  /\ UNCHANGED <<input_type, output_type_arg, output_type, pastes,
                 no_intersections, output,
                 i, iter, work, work_state, worker, performed, iter_state,
                 zeroed, last_write>>
  /\ UNCHANGED <<gpu_vars, eng_vars, slice_vars>>

(***************************************************************************)
(* The workers of the thread pool and the work items they run.             *)
(***************************************************************************)
\* The canvas a work item of sample s that pastes from image f writes.
ToSampleFrom(s, f) == f
ToSample(s, f) == s

\* Number of elements one paste iteration copies.
PasteVolume(p) == p.shape[1] * p.shape[2] * OutShape[3]

\* The pos-th element a paste iteration copies, in row-major order:
\* <<dy, dx, c>> relative to the anchors.
PasteElem(p, pos) ==
  <<pos \div (p.shape[2] * OutShape[3]),
    (pos \div OutShape[3]) % p.shape[2],
    pos % OutShape[3]>>

\* The value the paste writes for element e of iteration p.
PasteValue(p, e) ==
  ConvertSat(output_type,
             ImagePixel(input_type, p.in_idx,
                        p.in_anchor[1] + e[1], p.in_anchor[2] + e[2], e[3]))

\* The flattened output index the paste writes for element e of iteration p.
PasteIndex(p, e) ==
  Offset(OutShape, p.out_anchor[1] + e[1], p.out_anchor[2] + e[2], e[3])

\* A worker takes a queued work item.
WorkerTake(w) ==
  /\ worker[w].item = 0
  /\ \E k \in 1 .. Len(work) :
       /\ work_state[k] = "queued"
       /\ IF work[k].paste_count = 0
          THEN /\ work_state' = [work_state EXCEPT ![k] = "done"]
               /\ UNCHANGED worker
          ELSE /\ work_state' = [work_state EXCEPT ![k] = "running"]
               /\ worker' = [worker EXCEPT ![w] =
                               [item |-> k, iter |-> work[k].iter, pos |-> 0]]
  /\ UNCHANGED <<input_type, output_type_arg, output_type, pastes,
                 no_intersections, output,
                 mainpc, i, iter, work, performed, iter_state, zeroed,
                 last_write>>
  /\ UNCHANGED <<gpu_vars, eng_vars, slice_vars>>

\* A worker copies the next element of the paste iteration it is running
\* (kernel_manager_.Run of PasteCpu); after the last element of the
\* iteration it goes on to the next iteration of the item, or completes it.
WorkerStep(w) ==
  /\ worker[w].item # 0
  /\ LET k == worker[w].item
         it == work[k]
         n == worker[w].iter
         p == pastes[it.sample][n + 1]
         to_sample == ToSample(it.sample, p.in_idx)
         e == PasteElem(p, worker[w].pos)
         last == worker[w].pos + 1 = PasteVolume(p)
         more == it.kind = "all" /\ n + 1 < it.paste_count
     IN /\ output' = [output EXCEPT ![to_sample][PasteIndex(p, e)] =
                         PasteValue(p, e)]
        /\ last_write' = [by |-> it.sample, from |-> p.in_idx,
                          buf |-> to_sample, idx |-> PasteIndex(p, e)]
        /\ iter_state' = [iter_state EXCEPT ![it.sample][n + 1] =
                            IF last THEN "done" ELSE "running"]
        /\ performed' = IF last
                        THEN [performed EXCEPT ![k] = Append(@, n)]
                        ELSE performed
        /\ worker' = [worker EXCEPT ![w] =
                        IF ~last THEN [@ EXCEPT !.pos = @ + 1]
                        ELSE IF more THEN [@ EXCEPT !.iter = n + 1, !.pos = 0]
                        ELSE Idle]
        /\ work_state' = IF last /\ ~more
                         THEN [work_state EXCEPT ![k] = "done"]
                         ELSE work_state
  /\ UNCHANGED <<input_type, output_type_arg, output_type, pastes,
                 no_intersections, mainpc,
                 i, iter, work, zeroed>>
  /\ UNCHANGED <<gpu_vars, eng_vars, slice_vars>>

(***************************************************************************)
(* paste::PasteKernel.                                                     *)
(*                                                                         *)
(* The kernel reads the packed descriptors and the input images and writes *)
(* the output canvases; its threads share no other data and never          *)
(* synchronise.  Threads are issued in launch order to a bounded number of *)
(* lanes, and the threads in the lanes interleave at every store.          *)
(***************************************************************************)
\* Number of threads that execute at the same time.
Lanes == 2

\* Numbers of samples of a launch.
KBatchSizes == {1, 2}
\* <<H, W>> of every canvas and input image, W counting the channels.
KShape == <<2, 3>>
\* Block extents <<x, y>> the block setup is drawn from.
KBlockSizes == {<<3, 2>>, <<2, 2>>}
\* blockDim <<x, y>> the launches are drawn from.
KBlockDims == {<<1, 1>>, <<2, 1>>, <<1, 2>>}
\* Output element types the kernel is instantiated with.
KOutTypes == {"uint8"}
\* How the cells of a launch get their sources.
KSourcePatterns == {"alternate", "all"}

\* The elements of a finite set of integers in increasing order.
RECURSIVE SortedSeq(_)
SortedSeq(S) ==
  IF S = {} THEN <<>>
  ELSE LET m == CHOOSE m \in S : \A o \in S : m <= o
       IN <<m>> \o SortedSeq(S \ {m})

\* Element off of input image img.
KInElem(img, off) == 150 * img + 100 * off - 250

\* The source of the cell in grid row r, column c (0 is nullptr).
KCellSource(pattern, r, c) ==
  IF pattern = "alternate" THEN (r + c) % 2 ELSE 1 + ((r + c) % 2)

\* The cells of the grid with row boundaries ys and column boundaries xs
\* (both increasing, the last one the canvas extent), in row-major order.
GridOf(ys, xs, pattern) ==
  [g \in 1 .. Len(ys) * Len(xs) |->
     LET r == (g - 1) \div Len(xs) + 1
         c == ((g - 1) % Len(xs)) + 1
         y0 == IF r = 1 THEN 0 ELSE ys[r - 1]
         x0 == IF c = 1 THEN 0 ELSE xs[c - 1]
         src == KCellSource(pattern, r, c)
     IN [in |-> src,
         cell_start |-> <<y0, x0>>,
         cell_end |-> <<ys[r], xs[c]>>,
         in_anchor |-> IF pattern = "all" THEN <<y0, x0>> ELSE <<0, 0>>,
         in_pitch |-> <<0, IF src = 0 THEN -1 ELSE KShape[2]>>]]

\* The grids a sample is drawn from: <<row boundaries, column boundaries>>.
KGrids ==
  {<<SortedSeq(ys \cup {KShape[1]}), SortedSeq(xs \cup {KShape[2]})>> :
     ys \in SUBSET (1 .. KShape[1] - 1), xs \in SUBSET (1 .. KShape[2] - 1)}

\* The cell array of the samples with grids gs, one sample after another.
RECURSIVE CellsOf(_, _)
CellsOf(gs, pattern) ==
  IF gs = <<>> THEN <<>>
  ELSE GridOf(Head(gs)[1], Head(gs)[2], pattern) \o CellsOf(Tail(gs), pattern)

RECURSIVE StartIdx(_, _)
StartIdx(gs, n) ==
  IF n = 1 THEN 0
  ELSE StartIdx(gs, n - 1) + Len(gs[n - 1][1]) * Len(gs[n - 1][2])

SamplesOf(gs) ==
  [n \in 1 .. Len(gs) |->
     [out |-> n,
      grid_cell_start_idx |-> StartIdx(gs, n),
      cell_counts |-> <<Len(gs[n][1]), Len(gs[n][2])>>,
      out_pitch |-> <<0, KShape[2]>>]]

CeilDiv(a, b) == (a + b - 1) \div b

Min(a, b) == IF a < b THEN a ELSE b

\* The blocks of extent bs that tile the canvases of n samples.
BlocksOf(n, bs) ==
  LET nx == CeilDiv(KShape[2], bs[1])
      ny == CeilDiv(KShape[1], bs[2])
  IN [b \in 1 .. n * nx * ny |->
        LET s == (b - 1) \div (nx * ny)
            by == ((b - 1) % (nx * ny)) \div nx
            bx == (b - 1) % nx
        IN [sample_idx |-> s,
            start |-> [x |-> bx * bs[1], y |-> by * bs[2]],
            end |-> [x |-> Min((bx + 1) * bs[1], KShape[2]),
                     y |-> Min((by + 1) * bs[2], KShape[1])]]]

NoThread == [pc |-> "idle"]

Positions == 0 .. KShape[1] * KShape[2] - 1

\* The grids of the samples of a launch: a sample has at most as many cells
\* as the sample before it (the launches with the samples in the other
\* order are alike).
KLaunchGrids(n) ==
  {gs \in [1 .. n -> KGrids] :
     \A k \in 2 .. n :
       Len(gs[k][1]) * Len(gs[k][2]) <= Len(gs[k - 1][1]) * Len(gs[k - 1][2])}

KInit ==
  /\ \E n \in KBatchSizes, pattern \in KSourcePatterns, bs \in KBlockSizes :
       \E gs \in KLaunchGrids(n) :
          /\ samples = SamplesOf(gs)
          /\ grid_cells = CellsOf(gs, pattern)
          /\ blocks = BlocksOf(n, bs)
          /\ k_out = [s \in 1 .. n |-> [e \in Positions |-> Uninit]]
          /\ k_writers = [s \in 1 .. n |-> [e \in Positions |-> <<>>]]
          /\ k_reads = [s \in 1 .. n |-> [e \in Positions |-> {}]]
  /\ blockDim \in KBlockDims
  /\ k_type \in KOutTypes
  /\ lane = [l \in 1 .. Lanes |-> NoThread]
  /\ k_next = 0
  /\ k_fault = FALSE

\* The launch that is not running (the state of the CPU operator's runs).
KOff ==
  /\ samples = <<>>
  /\ grid_cells = <<>>
  /\ blocks = <<>>
  /\ blockDim = <<1, 1>>
  /\ k_type = "uint8"
  /\ k_out = <<>>
  /\ k_writers = <<>>
  /\ k_reads = <<>>
  /\ lane = [l \in 1 .. Lanes |-> NoThread]
  /\ k_next = 0
  /\ k_fault = FALSE

\* Threads of the launch, and the t-th one in launch order (t from 0).
KThreadCount == Len(blocks) * blockDim[1] * blockDim[2]

KThread(t) ==
  LET per == blockDim[1] * blockDim[2]
  IN [b |-> t \div per + 1,
      ty |-> (t % per) \div blockDim[1],
      tx |-> t % blockDim[1]]

\* my_grid_cells[g] of sample descriptor sd (g from 0); the index into the
\* cell array is from 1 here.
CellIndex(sd, g) == sd.grid_cell_start_idx + g + 1

InArray(sd, g) == CellIndex(sd, g) \in 1 .. Len(grid_cells)

\* The same with an if in the place of the while.
AdvanceOnce(sd, g, stride, off, axis, v) ==
  IF ~InArray(sd, g * stride + off) THEN -1 - g
  ELSE IF v >= grid_cells[CellIndex(sd, g * stride + off)].cell_end[axis]
       THEN g + 1
       ELSE g

\* while (v >= my_grid_cells[g * stride + off].cell_end[axis]) g++ : the
\* cursor g the loop ends with, or -1 - g when it reads a cell past the
\* end of the cell array.
RECURSIVE Advance(_, _, _, _, _, _)
Advance(sd, g, stride, off, axis, v) ==
  IF ~InArray(sd, g * stride + off) THEN -1 - g
  ELSE IF v >= grid_cells[CellIndex(sd, g * stride + off)].cell_end[axis]
       THEN Advance(sd, g + 1, stride, off, axis, v)
       ELSE g

\* The same with grid_x restarted from the first grid column.
EnterRowFromZero(th, y) ==
  LET blk == blocks[th.b]
      sd == samples[blk.sample_idx + 1]
  IN IF y >= blk.end.y THEN NoThread
     ELSE [th EXCEPT !.y = y, !.x = th.tx + blk.start.x,
                     !.grid_y = Advance(sd, th.grid_y, sd.cell_counts[2], 0, 1, y),
                     !.grid_x = 0]

\* The thread at the head of output row y (lines 119-121): grid_y advanced
\* and grid_x reset, or the thread finished when there is no such row.
EnterRow(th, y) ==
  LET blk == blocks[th.b]
      sd == samples[blk.sample_idx + 1]
  IN IF y >= blk.end.y THEN NoThread
     ELSE [th EXCEPT !.y = y, !.x = th.tx + blk.start.x,
                     !.grid_y = Advance(sd, th.grid_y, sd.cell_counts[2], 0, 1, y),
                     !.grid_x = th.min_grid_x]

\* The thread moved on over the rows it has no column in.
RECURSIVE Settle(_)
Settle(th) ==
  IF th.pc = "idle" THEN th
  ELSE IF th.x >= blocks[th.b].end.x
       THEN Settle(EnterRow(th, th.y + blockDim[2]))
       ELSE th

\* The first column of thread t and its scan for min_grid_x (line 117).
FirstColumn(t) == KThread(t).tx + blocks[KThread(t).b].start.x

MinGridX(t) ==
  Advance(samples[blocks[KThread(t).b].sample_idx + 1], 0, 1, 0, 2,
          FirstColumn(t))

\* Thread t with min_grid_x = m, at its first store or finished.
Started(t, m) ==
  LET id == KThread(t)
      th == [pc |-> "run", b |-> id.b, tx |-> id.tx, ty |-> id.ty,
             min_grid_x |-> m, grid_y |-> 0, grid_x |-> m, y |-> 0, x |-> 0]
  IN Settle(EnterRow(th, id.ty + blocks[id.b].start.y))

\* Lane l is the first lane that executes no thread: the lanes are alike,
\* and the next thread is issued to the first free one.
FirstIdle(l) ==
  /\ lane[l].pc = "idle"
  /\ \A m \in 1 .. l - 1 : lane[m].pc # "idle"

\* A lane takes the next thread: lines 108-121 up to its first store.
KStart(l) ==
  /\ ~k_fault
  /\ FirstIdle(l)
  /\ k_next < KThreadCount
  /\ MinGridX(k_next) >= 0
  /\ lane' = [lane EXCEPT ![l] = Started(k_next, MinGridX(k_next))]
  /\ k_next' = k_next + 1
  /\ UNCHANGED <<samples, grid_cells, blocks, blockDim, k_type, k_out,
                 k_writers, k_reads, k_fault>>
  /\ UNCHANGED <<cpu_vars, eng_vars, slice_vars>>

\* The same, for a thread whose scan for min_grid_x reads past the end of
\* the cell array: the read returns anything, and the scan ends there, or
\* it faults and the launch is aborted.
KStartPast(l) ==
  /\ ~k_fault
  /\ FirstIdle(l)
  /\ k_next < KThreadCount
  /\ MinGridX(k_next) < 0
  /\ \/ /\ lane' = [lane EXCEPT ![l] = Started(k_next, -1 - MinGridX(k_next))]
        /\ k_next' = k_next + 1
        /\ UNCHANGED k_fault
     \/ /\ k_fault' = TRUE
        /\ UNCHANGED <<lane, k_next>>
  /\ UNCHANGED <<samples, grid_cells, blocks, blockDim, k_type, k_out,
                 k_writers, k_reads>>
  /\ UNCHANGED <<cpu_vars, eng_vars, slice_vars>>

\* The column a thread visits after column x (the step of line 122).
NextColumnByOne(x) == x + 1
NextColumn(x) == x + blockDim[1]

\* The cursor grid_x of thread th before its store at (th.y, th.x).
GridX(th) ==
  LET sd == samples[blocks[th.b].sample_idx + 1]
  IN Advance(sd, th.grid_x, 1, th.grid_y * sd.cell_counts[2], 2, th.x)

\* The index into cell->in of lines 130-131, for position (y, x) of cell c.
SourceIndexNoRow(c, y, x) == x - c.cell_start[2] + c.in_anchor[2]
SourceIndex(c, y, x) ==
  (y - c.cell_start[1] + c.in_anchor[1]) * c.in_pitch[2]
  + (x - c.cell_start[2] + c.in_anchor[2])

\* What the store for position (y, x) of cell c reads through the cell's
\* source pointer: nothing for nullptr, else the element at the index
\* computed with the cell's pitch.
SourceReads(c, y, x) ==
  IF c.in = 0 THEN {}
  ELSE {[in |-> c.in, off |-> SourceIndex(c, y, x), pitch |-> c.in_pitch[2]]}

\* The conversion applied to the element read: ConvertSat<OutputType>, or
\* the cast static_cast<OutputType> that wraps modulo 2^8.
ConvertWrap(t, v) == IF t = "uint8" THEN v % 256 ELSE v
Convert(t, v) == ConvertSat(t, v)

\* The value stored for position (y, x) resolved to cell c (lines 126-132).
StoredValue(c, y, x) ==
  IF c.in = 0 THEN 0
  ELSE Convert(k_type, KInElem(c.in, SourceIndex(c, y, x)))

\* One pass of the inner loop (lines 122-133): the cursor advances, the
\* cell is resolved and the position stored; then the next column, or the
\* next row of the thread.
KStore(l) ==
  /\ ~k_fault
  /\ lane[l].pc = "run"
  /\ LET th == lane[l]
         sd == samples[blocks[th.b].sample_idx + 1]
         gx == GridX(th)
         g == th.grid_y * sd.cell_counts[2] + gx
         c == grid_cells[CellIndex(sd, g)]
         pos == th.y * sd.out_pitch[2] + th.x
     IN /\ k_out' = [k_out EXCEPT ![sd.out][pos] = StoredValue(c, th.y, th.x)]
        /\ k_writers' = [k_writers EXCEPT ![sd.out][pos] =
                           Append(@, <<th.b, th.tx, th.ty>>)]
        /\ k_reads' = [k_reads EXCEPT ![sd.out][pos] =
                         @ \cup SourceReads(c, th.y, th.x)]
        /\ lane' = [lane EXCEPT ![l] =
                      Settle([th EXCEPT !.grid_x = gx, !.x = NextColumn(th.x)])]
  /\ UNCHANGED <<samples, grid_cells, blocks, blockDim, k_type, k_next,
                 k_fault>>
  /\ UNCHANGED <<cpu_vars, eng_vars, slice_vars>>

\* Every thread of the launch has finished.
KernelDone ==
  /\ ~k_fault
  /\ k_next = KThreadCount
  /\ \A l \in 1 .. Lanes : lane[l].pc = "idle"

(***************************************************************************)
(* kernels::PasteGPU: Setup, Run and paste::CreateSampleDescriptors.       *)
(*                                                                         *)
(* A batch is given by the channel count of each input image and the grid  *)
(* of each sample.  Image k (from 0) is EInWidth(k) wide and canvas k is   *)
(* EOutWidth(k) wide, in pixels.                                           *)
(***************************************************************************)
\* Largest number of calls of Setup and Run on one PasteGPU object.
MaxCalls == 3

\* Numbers of samples of a batch, channel counts of an image, and numbers
\* of grid cells of a sample.
EBatchSizes == {1, 2}
EChannels == {1, 3}
ECellCounts == {1, 2}

EHeight == 2
EInWidth(k) == k + 2
EOutWidth(k) == k + 4
\* Width, in flattened columns, of the blocks the block setup makes.
EBlockWidth == 4

\* The batches: in.shape[k][2] for every image, cells for every sample.
EBatches ==
  UNION {[chan : [1 .. n -> EChannels], cells : [1 .. n -> ECellCounts]] :
           n \in EBatchSizes}

NumSamples(b) == Len(b.chan)

RECURSIVE CellsBefore(_, _)
CellsBefore(b, n) == IF n = 1 THEN 0 ELSE CellsBefore(b, n - 1) + b.cells[n - 1]

NumCells(b) == CellsBefore(b, NumSamples(b) + 1)

\* The span of MultiPasteSampleInput of batch b.
ESampleInputs(b) ==
  [n \in 1 .. NumSamples(b) |->
     [grid_cell_start_idx |-> CellsBefore(b, n),
      cell_counts |-> <<1, b.cells[n]>>]]

\* The GridCellInput of the cells of sample n (from 1) of batch b: one cell
\* that takes the canvas from the sample's own image, or a background cell
\* of one column followed by a cell that takes the rest from image 0.
EGridInputs(b, n) ==
  IF b.cells[n] = 1
  THEN <<[input_idx |-> n - 1, cell_start |-> <<0, 0>>,
          cell_end |-> <<EHeight, EOutWidth(n - 1)>>, in_anchor |-> <<0, 1>>]>>
  ELSE <<[input_idx |-> -1, cell_start |-> <<0, 0>>,
          cell_end |-> <<EHeight, 1>>, in_anchor |-> <<0, 0>>],
         [input_idx |-> 0, cell_start |-> <<0, 1>>,
          cell_end |-> <<EHeight, EOutWidth(n - 1)>>, in_anchor |-> <<1, 1>>]>>

\* The span of GridCellInput of batch b.
RECURSIVE ECellInputsUpTo(_, _)
ECellInputsUpTo(b, n) ==
  IF n = 0 THEN <<>> ELSE ECellInputsUpTo(b, n - 1) \o EGridInputs(b, n)

ECellInputs(b) == ECellInputsUpTo(b, NumSamples(b))

\* Number of blocks SetupBlocks makes for the canvases of batch b, flattened
\* to EHeight rows of width x channels columns.
RECURSIVE EBlockCountUpTo(_, _)
EBlockCountUpTo(b, n) ==
  IF n = 0 THEN 0
  ELSE EBlockCountUpTo(b, n - 1)
       + CeilDiv(EOutWidth(n - 1) * b.chan[n], EBlockWidth)

EBlockCount(b) == EBlockCountUpTo(b, NumSamples(b))

\* A value-initialised element of the descriptor vectors.
BlankSample ==
  [out |-> 0, grid_cell_start_idx |-> 0, cell_counts |-> <<0, 0>>,
   out_pitch |-> <<0, 0>>]
BlankCell ==
  [in |-> 0, cell_start |-> <<0, 0>>, cell_end |-> <<0, 0>>,
   in_anchor |-> <<0, 0>>, in_pitch |-> <<0, 0>>]

\* std::vector::resize(n).
Resize(v, n, blank) == [k \in 1 .. n |-> IF k <= Len(v) THEN v[k] ELSE blank]

NoCall == [op |-> "none"]
NoneWritten == [samples |-> {}, cells |-> {}]
NoScratch == [samples |-> <<>>, cells |-> <<>>, blocks |-> 0]

EngInit ==
  /\ sample_descriptors = <<>>
  /\ grid_cell_descriptors = <<>>
  /\ block_setup = 0
  /\ scratch_sizes = <<0, 0, 0>>
  /\ scratch = NoScratch
  /\ launches = 0
  /\ e_call = NoCall
  /\ e_result = "none"
  /\ e_written = NoneWritten
  /\ e_calls = 0
  /\ ndebug \in BOOLEAN

\* The PasteGPU object that is not used (the state of the other runs).
EngOff ==
  /\ sample_descriptors = <<>>
  /\ grid_cell_descriptors = <<>>
  /\ block_setup = 0
  /\ scratch_sizes = <<0, 0, 0>>
  /\ scratch = NoScratch
  /\ launches = 0
  /\ e_call = NoCall
  /\ e_result = "none"
  /\ e_written = NoneWritten
  /\ e_calls = 0
  /\ ndebug = TRUE

\* The lambda of DALI_ENFORCE in Setup: every image has the channel count
\* of image 0.
ChannelsEqualFirstOnly(b) == b.chan[1] = b.chan[1]
ChannelsEqual(b) == \A k \in 1 .. NumSamples(b) : b.chan[k] = b.chan[1]

\* The sizes Setup gives the descriptor vectors and reports.
SampleDescCount(b) == NumSamples(b)
CellDescCountAsSamples(b) == NumSamples(b)
CellDescCount(b) == NumCells(b)

\* A call can be made: the bound is not reached and no earlier call ended
\* the process.
CanCall == e_calls < MaxCalls /\ e_result \notin {"abort", "fault"}

\* Setup(context, in, samples, grid_cells, out_shape) on batch b.
Setup(b) ==
  /\ CanCall
  /\ e_calls' = e_calls + 1
  /\ e_call' = [op |-> "Setup", batch |-> b]
  /\ e_written' = NoneWritten
  /\ IF ~ChannelsEqual(b)
     THEN /\ e_result' = "error"
          /\ UNCHANGED <<sample_descriptors, grid_cell_descriptors,
                         block_setup, scratch_sizes>>
     ELSE /\ e_result' = "ok"
          /\ block_setup' = EBlockCount(b)
          /\ sample_descriptors' =
               Resize(sample_descriptors, SampleDescCount(b), BlankSample)
          /\ grid_cell_descriptors' =
               Resize(grid_cell_descriptors, CellDescCount(b), BlankCell)
          /\ scratch_sizes' =
               <<SampleDescCount(b), CellDescCount(b), EBlockCount(b)>>
  /\ UNCHANGED <<scratch, launches, ndebug>>
  /\ UNCHANGED <<cpu_vars, gpu_vars, slice_vars>>

\* The channel count Run hands to CreateSampleDescriptors.
RunChannels(b) == 3

\* The same with the row pitch added to what the descriptor held.
PackSampleAdd(old, b, n, channels) ==
  [out |-> n,
   grid_cell_start_idx |-> ESampleInputs(b)[n].grid_cell_start_idx,
   cell_counts |-> ESampleInputs(b)[n].cell_counts,
   out_pitch |-> <<old.out_pitch[1],
                   old.out_pitch[2] + EOutWidth(n - 1) * channels>>]

\* The sample descriptor CreateSampleDescriptors writes over old for sample
\* n (from 1) of batch b (lines 73-80); out_pitch[0] is left as it was.
PackSample(old, b, n, channels) ==
  [out |-> n,
   grid_cell_start_idx |-> ESampleInputs(b)[n].grid_cell_start_idx,
   cell_counts |-> ESampleInputs(b)[n].cell_counts,
   out_pitch |-> <<old.out_pitch[1], EOutWidth(n - 1) * channels>>]

\* The cell descriptor CreateSampleDescriptors writes over old for the cell
\* input c (lines 84-97); in_pitch[0] is only multiplied.
PackCell(old, c, channels) ==
  [in |-> IF c.input_idx = -1 THEN 0 ELSE c.input_idx + 1,
   cell_start |-> <<c.cell_start[1], c.cell_start[2] * channels>>,
   cell_end |-> <<c.cell_end[1], c.cell_end[2] * channels>>,
   in_anchor |-> <<c.in_anchor[1], c.in_anchor[2] * channels>>,
   in_pitch |-> <<old.in_pitch[1] * channels,
                  (IF c.input_idx = -1 THEN -1 ELSE EInWidth(c.input_idx))
                  * channels>>]

\* The descriptor vectors after the two loops of CreateSampleDescriptors
\* over the first ns samples and the first nc cells of batch b: the
\* elements the vectors have are overwritten.
PackedSamples(b, ns) ==
  [k \in 1 .. Len(sample_descriptors) |->
     IF k <= ns
     THEN PackSample(sample_descriptors[k], b, k, RunChannels(b))
     ELSE sample_descriptors[k]]

PackedCells(b, nc) ==
  [k \in 1 .. Len(grid_cell_descriptors) |->
     IF k <= nc
     THEN PackCell(grid_cell_descriptors[k], ECellInputs(b)[k], RunChannels(b))
     ELSE grid_cell_descriptors[k]]

\* The scratch sizes Run is given: what the last Setup reported, or one
\* grid-cell descriptor less.
ScratchChoices ==
  {scratch_sizes} \cup
  (IF scratch_sizes[2] > 0
   THEN {<<scratch_sizes[1], scratch_sizes[2] - 1, scratch_sizes[3]>>}
   ELSE {})

\* ToContiguousGPU finds room for the three arrays in scratch of sizes sc.
ScratchFits(sc) ==
  /\ Len(sample_descriptors) <= sc[1]
  /\ Len(grid_cell_descriptors) <= sc[2]
  /\ block_setup <= sc[3]

\* Run stopped by the assert of line 70 (builds without NDEBUG).
RunAssert(b, sc) ==
  /\ ~ndebug
  /\ Len(sample_descriptors) < NumSamples(b)
  /\ e_result' = "abort"
  /\ e_written' = NoneWritten
  /\ UNCHANGED <<sample_descriptors, grid_cell_descriptors, scratch, launches>>

\* Run past the assert: the two loops write the descriptors of every
\* sample and of every cell of the batch, also past the end of the
\* vectors; then the descriptors and the blocks are copied to the
\* scratchpad and the kernel is launched.
RunPack(b, sc) ==
  /\ ndebug \/ Len(sample_descriptors) >= NumSamples(b)
  /\ sample_descriptors' = PackedSamples(b, NumSamples(b))
  /\ grid_cell_descriptors' = PackedCells(b, NumCells(b))
  /\ e_written' = [samples |-> 1 .. NumSamples(b), cells |-> 1 .. NumCells(b)]
  /\ IF ScratchFits(sc)
     THEN /\ e_result' = "ok"
          /\ scratch' = [samples |-> sample_descriptors',
                         cells |-> grid_cell_descriptors',
                         blocks |-> block_setup]
          /\ launches' = launches + 1
     ELSE /\ e_result' = "error"
          /\ UNCHANGED <<scratch, launches>>

\* A write past the end of a descriptor vector faults: the descriptors
\* before it are written.
RunFault(b, sc) ==
  /\ ndebug \/ Len(sample_descriptors) >= NumSamples(b)
  /\ \/ NumSamples(b) > Len(sample_descriptors)
     \/ NumCells(b) > Len(grid_cell_descriptors)
  /\ e_result' = "fault"
  /\ IF NumSamples(b) > Len(sample_descriptors)
     THEN /\ sample_descriptors' = PackedSamples(b, NumSamples(b))
          /\ e_written' = [samples |-> 1 .. Len(sample_descriptors) + 1,
                           cells |-> {}]
          /\ UNCHANGED grid_cell_descriptors
     ELSE /\ sample_descriptors' = PackedSamples(b, NumSamples(b))
          /\ grid_cell_descriptors' = PackedCells(b, NumCells(b))
          /\ e_written' = [samples |-> 1 .. NumSamples(b),
                           cells |-> 1 .. Len(grid_cell_descriptors) + 1]
  /\ UNCHANGED <<scratch, launches>>

\* Run(context, out, in, samples, grid) on batch b with scratch of sizes sc.
Run(b, sc) ==
  /\ CanCall
  /\ e_calls' = e_calls + 1
  /\ e_call' = [op |-> "Run", batch |-> b, scratch |-> sc]
  /\ \/ RunAssert(b, sc)
     \/ RunPack(b, sc)
     \/ RunFault(b, sc)
  /\ UNCHANGED <<block_setup, scratch_sizes, ndebug>>
  /\ UNCHANGED <<cpu_vars, gpu_vars, slice_vars>>

(***************************************************************************)
(* SliceAttr (slice_attr.h): the constructor, ProcessArguments and the     *)
(* crop window generators it installs.                                     *)
(*                                                                         *)
(* int64_t is scaled down to I64Bits bits.  A double is an integer count   *)
(* of halves (Half of them make 1.0), which is exact for every value the   *)
(* model computes; the double nearest to the largest int64_t is one above  *)
(* it, as 2^63 is the double nearest to 2^63 - 1.                          *)
(***************************************************************************)
MaxExtent == 2

NDim == 2

I64Bits == 4

Half == 2

Int64Min == -(2 ^ (I64Bits - 1))

Int64Max == 2 ^ (I64Bits - 1) - 1

\* static_cast<double>(std::numeric_limits<int64_t>::min()).
i64min == Half * Int64Min

\* static_cast<double>(std::numeric_limits<int64_t>::max()).
i64max == Half * (Int64Max + 1)

\* Values of the int arguments start, end, shape and of int32_t inputs.
Int32Vals == {-2, 0, 1, 3}

\* Values of int64_t inputs.
Int64Vals == {Int64Min, 0, 4, Int64Max}

\* Values of the float arguments rel_start, rel_end, rel_shape and of float
\* inputs, in halves: -4.5, -4, 0.5, 3, 4 and 5.
FloatVals == {-9, -8, 1, 6, 8, 10}

\* Types of the anchor and shape inputs; uint8 is not in SLICE_ARGS_TYPES.
SLICE_ARGS_TYPES == {"int32", "int64", "float"}

ArgTypes == SLICE_ARGS_TYPES \cup {"uint8"}

ArgVals(type) ==
  CASE type = "int32" -> Int32Vals
    [] type = "int64" -> Int64Vals
    [] OTHER -> FloatVals

\* The conversion of an element of the given type to double.
ToDouble(type, v) ==
  CASE type = "float" -> v
    [] type = "int64" /\ v = Int64Max -> i64max
    [] OTHER -> Half * v

\* ws.NumInput().
SNumInputs == {1, 2, 3}

\* The axes listed by axes or axis_names, as dimensions from 1.
AxesChoices == {<<1>>, <<2>>, <<1, 2>>}

\* Shapes of the input the generator is called with.
InShapes == [1 .. NDim -> 1 .. MaxExtent]

\* Which of the six named arguments the OpSpec defines.
ArgNames == {"start", "rel_start", "end", "rel_end", "shape", "rel_shape"}

NoNamed == [a \in ArgNames |-> <<>>]

NoPositional == [type |-> "none", anchor |-> <<>>, shape |-> <<>>]

NoWindow == [anchor |-> <<>>, shape |-> <<>>]

has_start_(has) == has["start"] \/ has["rel_start"]

has_end_(has) == has["end"] \/ has["rel_end"]

has_shape_(has) == has["shape"] \/ has["rel_shape"]

\* The same from the absolute arguments end and shape only.
CtorRejectsAbsoluteOnly(has) == has["end"] /\ has["shape"]

\* The DALI_ENFORCE of the constructor fails (line 64).
CtorRejects(has) == has_end_(has) /\ has_shape_(has)

\* The OpSpecs a SliceAttr is constructed from: start and rel_start are not
\* given together, and normalized_anchor/normalized_shape are set only with
\* positional arguments.
SliceOpSpecs ==
  {s \in [has : [ArgNames -> BOOLEAN], axes : AxesChoices,
          norm : [anchor : BOOLEAN, shape : BOOLEAN]] :
     /\ ~(s.has["start"] /\ s.has["rel_start"])
     /\ (has_start_(s.has) \/ has_end_(s.has) \/ has_shape_(s.has))
          => (~s.norm.anchor /\ ~s.norm.shape)}

SliceInit0 ==
  /\ s_pc = "new"
  /\ \E s \in SliceOpSpecs :
       /\ s_has = s.has
       /\ s_axes = s.axes
       /\ s_norm = s.norm
  /\ s_ninput = 0
  /\ s_mode = "none"
  /\ s_named = NoNamed
  /\ s_pos = NoPositional
  /\ s_in_shape = <<>>
  /\ s_status = "none"
  /\ s_window = NoWindow

\* No SliceAttr.
SliceOff ==
  /\ s_pc = "off"
  /\ s_has = [a \in ArgNames |-> FALSE]
  /\ s_axes = <<>>
  /\ s_norm = [anchor |-> FALSE, shape |-> FALSE]
  /\ s_ninput = 0
  /\ s_mode = "none"
  /\ s_named = NoNamed
  /\ s_pos = NoPositional
  /\ s_in_shape = <<>>
  /\ s_status = "none"
  /\ s_window = NoWindow

\* SliceAttr::SliceAttr (lines 38-66).
SliceAttrCtor ==
  /\ s_pc = "new"
  /\ s_pc' = IF CtorRejects(s_has) THEN "ctor_error" ELSE "constructed"
  /\ UNCHANGED <<s_has, s_axes, s_norm, s_ninput, s_mode, s_named, s_pos,
                 s_in_shape, s_status, s_window>>
  /\ UNCHANGED <<cpu_vars, gpu_vars, eng_vars>>

\* The named argument that Acquire reads for the anchor ("" if none),
\* lines 79-82.
AcquiredStart(has) ==
  IF has["start"] THEN "start"
  ELSE IF has["rel_start"] THEN "rel_start"
  ELSE ""

\* The named argument that Acquire reads for the end (lines 84-91).
AcquiredEnd(has) ==
  IF has["end"] THEN "end"
  ELSE IF has["rel_end"] THEN "rel_end"
  ELSE IF has["shape"] THEN "shape"
  ELSE IF has["rel_shape"] THEN "rel_shape"
  ELSE ""

\* The values Acquire can read for the named argument a on k listed axes:
\* start, end and shape are int, the relative ones float.
ArgData(a, k) ==
  IF a = "" THEN {<<>>}
  ELSE IF a \in {"start", "end", "shape"} THEN [1 .. k -> Int32Vals]
  ELSE [1 .. k -> FloatVals]

\* The data of the six named arguments after the Acquire calls of lines
\* 79-91: empty for an argument that was not acquired.
AcquiredData(has, k) ==
  {[a \in ArgNames |->
      IF a = AcquiredStart(has) THEN st
      ELSE IF a = AcquiredEnd(has) THEN en
      ELSE <<>>] :
     st \in ArgData(AcquiredStart(has), k),
     en \in ArgData(AcquiredEnd(has), k)}

\* The branch ProcessArguments takes for a workspace with n inputs
\* (lines 93, 98, 104, 121).
ArgumentsBranch(has, n) ==
  IF has_start_(has) \/ has_end_(has) \/ has_shape_(has)
  THEN IF n = 1 THEN "named" ELSE "error"
  ELSE IF n = 3 THEN "positional" ELSE "error"

\* VerifyArgsShape for an anchor input of na and a shape input of ns
\* elements (lines 260-269).
VerifyArgsShape(na, ns, axes) == na = ns /\ na = Len(axes)

ProcessFails ==
  /\ s_pc' = "proc_error"
  /\ s_mode' = "none"
  /\ s_named' = NoNamed
  /\ s_pos' = NoPositional

\* SliceAttr::ProcessArguments on a workspace with n inputs (lines 69-125).
ProcessArguments(n) ==
  /\ s_pc = "constructed"
  /\ s_ninput' = n
  /\ \/ /\ ArgumentsBranch(s_has, n) = "named"
        /\ \E d \in AcquiredData(s_has, Len(s_axes)) :
             /\ s_pc' = "processed"
             /\ s_mode' = "named"
             /\ s_named' = d
             /\ s_pos' = NoPositional
     \/ /\ ArgumentsBranch(s_has, n) = "positional"
        /\ \E ta \in ArgTypes, ts \in ArgTypes, na \in 1 .. NDim,
              ns \in 1 .. NDim :
             IF ta # ts \/ ta \notin SLICE_ARGS_TYPES
                \/ ~VerifyArgsShape(na, ns, s_axes)
             THEN ProcessFails
             ELSE \E anchor \in [1 .. na -> ArgVals(ta)],
                     shape \in [1 .. ns -> ArgVals(ts)] :
                    /\ s_pc' = "processed"
                    /\ s_mode' = "positional"
                    /\ s_named' = NoNamed
                    /\ s_pos' = [type |-> ta, anchor |-> anchor,
                                 shape |-> shape]
     \/ /\ ArgumentsBranch(s_has, n) = "error"
        /\ ProcessFails
  /\ UNCHANGED <<s_has, s_axes, s_norm, s_in_shape, s_status, s_window>>
  /\ UNCHANGED <<cpu_vars, gpu_vars, eng_vars>>

\* The check of the anchor (lines 157 and 243).
AnchorInRange(anchor_val) == anchor_val >= i64min /\ anchor_val <= i64max

\* The check of the end coordinate by the generator of ProcessNamedArgs
\* (line 187).
EndInRangeNamed(end_val) == end_val >= i64min /\ i64max <= i64max

\* The check of the end coordinate by the generator of
\* ProcessPositionalInputArgs (line 246).
EndInRange(end_val) == end_val >= i64min /\ end_val <= i64max

\* What the generator of ProcessNamedArgs computes for the listed axis
\* of an input with the given extent on it (lines 151-193): whether every
\* DALI_ENFORCE passes, anchor_val and end_val.
NamedAxis(has, data, ax, extent) ==
  LET anchor_val ==
        IF has["start"] THEN Half * data["start"][ax]
        ELSE IF has["rel_start"] THEN data["rel_start"][ax] * extent
        ELSE 0
      kind ==
        IF has["end"] THEN "end"
        ELSE IF has["rel_end"] THEN "rel_end"
        ELSE IF has["shape"] THEN "shape"
        ELSE IF has["rel_start"] /\ has["rel_shape"] THEN "rel_both"
        ELSE IF has["rel_shape"] THEN "rel_shape"
        ELSE "full"
      shape_val ==
        CASE kind = "shape" -> Half * data["shape"][ax]
          [] kind = "rel_shape" -> data["rel_shape"][ax] * extent
          [] OTHER -> 0
      shape_ok ==
        CASE kind \in {"shape", "rel_shape"} ->
               shape_val >= 0 /\ shape_val <= i64max
          [] kind = "rel_both" -> data["rel_shape"][ax] >= 0
          [] OTHER -> TRUE
      end_val ==
        CASE kind = "end" -> Half * data["end"][ax]
          [] kind = "rel_end" -> data["rel_end"][ax] * extent
          [] kind \in {"shape", "rel_shape"} -> anchor_val + shape_val
          [] kind = "rel_both" ->
               (data["rel_start"][ax] + data["rel_shape"][ax]) * extent
          [] OTHER -> Half * extent
  IN [ok |-> /\ AnchorInRange(anchor_val)
             /\ shape_ok
             /\ EndInRangeNamed(end_val)
             /\ end_val >= anchor_val,
      anchor_val |-> anchor_val,
      end_val |-> end_val]

\* What the generator of ProcessPositionalInputArgs computes for the
\* listed axis (lines 226-251).
PositionalAxis(pos, norm, ax, extent) ==
  LET normalized_anchor == pos.type = "float" /\ norm.anchor
      normalized_shape == pos.type = "float" /\ norm.shape
      anchor0 == ToDouble(pos.type, pos.anchor[ax])
      shape0 == ToDouble(pos.type, pos.shape[ax])
      anchor_val == IF normalized_anchor THEN anchor0 * extent ELSE anchor0
      shape_val == IF normalized_shape THEN shape0 * extent ELSE shape0
      end_val ==
        IF normalized_anchor /\ normalized_shape
        THEN (anchor0 + shape0) * extent
        ELSE anchor_val + shape_val
  IN [ok |-> /\ AnchorInRange(anchor_val)
             /\ EndInRange(end_val)
             /\ anchor_val <= end_val,
      anchor_val |-> anchor_val,
      end_val |-> end_val]

\* What the installed generator computes for each listed axis.
AxisValues(mode, has, data, pos, norm, axes, shape) ==
  [ax \in 1 .. Len(axes) |->
     IF mode = "named"
     THEN NamedAxis(has, data, ax, shape[axes[ax]])
     ELSE PositionalAxis(pos, norm, ax, shape[axes[ax]])]

\* The value std::llround gives for a result that does not fit int64_t is
\* not defined: the smallest int64_t (x86-64) or the largest (AArch64).
LlroundOverflow == {Int64Min, Int64Max}

\* std::llround: to the nearest integer, halves away from zero; lr when
\* the result does not fit int64_t.
Llround(v, lr) ==
  LET r == IF v >= 0 THEN (v + Half \div 2) \div Half
           ELSE -((Half \div 2 - v) \div Half)
  IN IF r >= Int64Min /\ r <= Int64Max THEN r ELSE lr

Fits64(v) == v >= Int64Min /\ v <= Int64Max

\* A result of int64_t arithmetic reduced to I64Bits bits.
Wrap64(v) == ((v - Int64Min) % (2 ^ I64Bits)) + Int64Min

IndexOf(axes, d) == CHOOSE ax \in 1 .. Len(axes) : axes[ax] = d

Listed(axes, d) == \E ax \in 1 .. Len(axes) : axes[ax] = d

\* The window of lines 137-138 with lines 195-196 (253-254) applied for
\* every listed axis.
WindowOf(vals, axes, shape, lr) ==
  [anchor |->
     [d \in 1 .. NDim |->
        IF Listed(axes, d)
        THEN Llround(vals[IndexOf(axes, d)].anchor_val, lr)
        ELSE 0],
   shape |->
     [d \in 1 .. NDim |->
        IF Listed(axes, d)
        THEN Wrap64(Llround(vals[IndexOf(axes, d)].end_val, lr)
                    - Llround(vals[IndexOf(axes, d)].anchor_val, lr))
        ELSE shape[d]]]

\* The subtraction of line 196 (254) overflows int64_t on some axis.
ExtentOverflows(vals, lr) ==
  \E ax \in DOMAIN vals :
    ~Fits64(Llround(vals[ax].end_val, lr) - Llround(vals[ax].anchor_val, lr))

\* A call of the generator installed by ProcessNamedArgs or
\* ProcessPositionalInputArgs with an input of the given shape.  A failed
\* DALI_ENFORCE throws; a signed overflow wraps or, in a build that traps
\* on it, aborts.
GetCropWindow(shape, lr, trap) ==
  /\ s_pc = "processed"
  /\ s_pc' = "generated"
  /\ s_in_shape' = shape
  /\ LET vals == AxisValues(s_mode, s_has, s_named, s_pos, s_norm, s_axes,
                            shape)
     IN IF \E ax \in DOMAIN vals : ~vals[ax].ok
        THEN s_status' = "error" /\ s_window' = NoWindow
        ELSE IF trap /\ ExtentOverflows(vals, lr)
        THEN s_status' = "fault" /\ s_window' = NoWindow
        ELSE /\ s_status' = "ok"
             /\ s_window' = WindowOf(vals, s_axes, shape, lr)
  /\ UNCHANGED <<s_has, s_axes, s_norm, s_ninput, s_mode, s_named, s_pos>>
  /\ UNCHANGED <<cpu_vars, gpu_vars, eng_vars>>

(***************************************************************************)
(* Specifications.                                                         *)
(***************************************************************************)
vars == <<cpu_vars, gpu_vars, eng_vars, slice_vars>>

\* The operator that is not running (the state of the kernel's launches).
CpuOff ==
  /\ input_type = "uint8"
  /\ output_type_arg = NoType
  /\ output_type = NoType
  /\ pastes = [s \in Samples |-> <<>>]
  /\ no_intersections = [s \in Samples |-> TRUE]
  /\ output = [s \in Samples |-> [e \in 0 .. Volume(OutShape) - 1 |-> Uninit]]
  /\ mainpc = "off"
  /\ i = 0
  /\ iter = 0
  /\ work = <<>>
  /\ work_state = <<>>
  /\ worker = [w \in Workers |-> Idle]
  /\ performed = <<>>
  /\ iter_state = [s \in Samples |-> <<>>]
  /\ zeroed = {}
  /\ last_write = NoWrite

\* MultiPasteCpu::RunImpl on a batch, with the workers of the thread pool.
Init == CpuInit /\ KOff /\ EngOff /\ SliceOff

Next ==
  \/ SetupImpl
  \/ Dispatch
  \/ ZeroCanvas
  \/ AddWorkIter
  \/ AddWorkAll
  \/ RunAll
  \/ \E w \in Workers : WorkerTake(w)
  \/ \E w \in Workers : WorkerStep(w)

Spec == Init /\ [][Next]_vars

\* One launch of PasteKernel.
KernelInit == KInit /\ CpuOff /\ EngOff /\ SliceOff

KernelNext ==
  \/ \E l \in 1 .. Lanes : KStart(l)
  \/ \E l \in 1 .. Lanes : KStartPast(l)
  \/ \E l \in 1 .. Lanes : KStore(l)

KernelSpec == KernelInit /\ [][KernelNext]_vars

\* Calls of Setup and Run on one PasteGPU object.
EngineInit == EngInit /\ CpuOff /\ KOff /\ SliceOff

EngineNext ==
  \/ \E b \in EBatches : Setup(b)
  \/ \E b \in EBatches : \E sc \in ScratchChoices : Run(b, sc)

EngineSpec == EngineInit /\ [][EngineNext]_vars

\* One SliceAttr: its construction, one call of ProcessArguments and one
\* call of the generator it installed.
SliceInit == SliceInit0 /\ CpuOff /\ KOff /\ EngOff

SliceNext ==
  \/ SliceAttrCtor
  \/ \E n \in SNumInputs : ProcessArguments(n)
  \/ \E shape \in InShapes : \E lr \in LlroundOverflow :
       \E trap \in BOOLEAN : GetCropWindow(shape, lr, trap)

SliceSpec == SliceInit /\ [][SliceNext]_vars

\* The batches the scheduling of RunImpl is followed on: uint8 images with
\* an output type that is dispatched (uint8) or not (float64).  Scheduling
\* does not read elements.
FairInit ==
  /\ Init
  /\ input_type = "uint8"
  /\ output_type_arg \in {"uint8", "float64"}

\* RunImpl on a batch under fair scheduling: a step is taken as long as
\* the RunImpl thread or a worker of the pool can take one.
FairSpec == FairInit /\ [][Next]_vars /\ WF_vars(Next)

(***************************************************************************)
(* Properties of MultiPasteCpu::RunImpl.                                   *)
(***************************************************************************)
Returned == mainpc = "returned"

Elems == 0 .. Volume(OutShape) - 1

\* The <<y, x, c>> of flattened element e of a canvas.
ElemY(e) == e \div (OutShape[2] * OutShape[3])
ElemX(e) == (e \div OutShape[3]) % OutShape[2]
ElemC(e) == e % OutShape[3]

\* The iterations of sample s whose destination rectangle covers element e.
Covering(s, e) ==
  {k \in 1 .. Len(pastes[s]) : <<ElemY(e), ElemX(e)>> \in DestRect(pastes[s][k])}

\* The source value iteration p pastes at element e, in the output type.
SourceAt(p, e) ==
  ConvertSat(output_type,
             ImagePixel(input_type, p.in_idx,
                        ElemY(e) - p.out_anchor[1] + p.in_anchor[1],
                        ElemX(e) - p.out_anchor[2] + p.in_anchor[2],
                        ElemC(e)))

Last(S) == CHOOSE k \in S : \A o \in S : o <= k

\* The work items submitted for sample s.
ItemsOf(s) == {k \in 1 .. Len(work) : work[k].sample = s}

\* The workers that are running a work item of sample s.
RunningOn(s) == {w \in Workers : worker[w].item # 0 /\ work[worker[w].item].sample = s}

\* C1: in every interleaving, a work item that writes canvas s is taken by
\* a worker only after the memset of canvas s has returned.
C1_ZeroBeforePaste ==
  \A k \in 1 .. Len(work) : work_state[k] # "queued" => work[k].sample \in zeroed

\* A worker pastes into canvas 0 while the RunImpl thread is about to zero
\* canvas 1.
C1_Witness ==
  /\ mainpc = "zero"
  /\ i = 1
  /\ \E w \in Workers : worker[w].item # 0 /\ work[worker[w].item].sample = 0

RECURSIVE ApplyPastes(_, _, _)
ApplyPastes(buf, l, k) ==
  IF k > Len(l) THEN buf
  ELSE ApplyPastes([e \in Elems |->
                      IF <<ElemY(e), ElemX(e)>> \in DestRect(l[k])
                      THEN SourceAt(l[k], e) ELSE buf[e]],
                   l, k + 1)

\* What a sequential run leaves in canvas s: the memset, then the pastes.
SequentialResult(s) ==
  ApplyPastes(Memset([e \in Elems |-> Uninit], output_type, ZeroBytes(s)),
              pastes[s], 1)

\* C3: when RunImpl has returned, the canvas of every sample with
\* no_intersections true (its rectangles are pairwise disjoint) is the one
\* a sequential run of its iterations in list order leaves, whatever the
\* order and interleaving of its work items were.
C3_DisjointIndependence ==
  Returned =>
    \A s \in Samples : no_intersections[s] /\ NoIntersections(pastes[s]) =>
      output[s] = SequentialResult(s)

\* Two workers run two iterations of the same sample at the same time,
\* the second iteration of the list having been started first.
C3_Witness ==
  \E s \in Samples :
    /\ no_intersections[s]
    /\ Cardinality(RunningOn(s)) = 2
    /\ iter_state[s][2] = "running"
    /\ iter_state[s][1] = "idle"

\* C4: when RunImpl has returned, every element of a canvas that no
\* destination rectangle covers is 0, for every supported output type.
C4_BackgroundZero ==
  Returned =>
    \A s \in Samples : \A e \in Elems : Covering(s, e) = {} => output[s][e] = 0

\* C5: every submitted work item is one paste iteration of one sample or
\* all the iterations of one sample; once the submitting loop is over a
\* sample with no_intersections true has one item per iteration, each for
\* a distinct iteration, and a sample with no_intersections false has one
\* item for all its iterations; when RunImpl has returned each item has
\* performed exactly the iterations it stands for.
C5_WorkPartitioning ==
  /\ \A k \in 1 .. Len(work) :
       /\ work[k].kind \in {"iter", "all"}
       /\ work[k].kind = "iter" <=> no_intersections[work[k].sample]
  /\ mainpc \in {"runall", "returned"} =>
       \A s \in Samples :
         IF no_intersections[s]
         THEN /\ Cardinality(ItemsOf(s)) = Len(pastes[s])
              /\ {work[k].iter : k \in ItemsOf(s)} = 0 .. Len(pastes[s]) - 1
         ELSE /\ Cardinality(ItemsOf(s)) = 1
              /\ \A k \in ItemsOf(s) : work[k].paste_count = Len(pastes[s])
  /\ Returned =>
       \A k \in 1 .. Len(work) :
         performed[k] = IF work[k].kind = "iter" THEN <<work[k].iter>>
                        ELSE [n \in 1 .. Len(pastes[work[k].sample]) |-> n - 1]

\* RunImpl has returned after two per-iteration items for one sample and
\* an empty other sample.
C5_Witness ==
  /\ Returned
  /\ Len(work) = 2
  /\ work[1].kind = "iter"
  /\ work[2].kind = "iter"
  /\ work[1].sample = work[2].sample

\* C6: for a sample with no_intersections false, at most one worker runs
\* paste iterations of the sample at any time, and an iteration has
\* started writing only if the iteration before it has finished.
C6_OverlapOrderedUnit ==
  \A s \in Samples : ~no_intersections[s] =>
    /\ Cardinality(RunningOn(s)) <= 1
    /\ \A k \in 1 .. Len(pastes[s]) - 1 :
         iter_state[s][k + 1] # "idle" => iter_state[s][k] = "done"

\* The second iteration of an overlapping sample is half written while
\* the other worker is idle.
C6_Witness ==
  \E s \in Samples :
    /\ ~no_intersections[s]
    /\ iter_state[s][2] = "running"
    /\ \E w \in Workers : worker[w].item = 0

\* C7: every element a work item of sample s writes is an element of
\* output canvas s.
C7_CrossSampleIsolation ==
  last_write.by # -1 =>
    /\ last_write.buf = last_write.by
    /\ last_write.idx \in Elems

\* A work item of sample 1 has pasted from input image 0 while a work
\* item of sample 0 is running.
C7_Witness ==
  /\ last_write.by = 1
  /\ last_write.from = 0
  /\ RunningOn(0) # {}

\* The largest number of work items a batch can have.
MaxItems == MaxPaste

\* C8: under fair scheduling RunImpl ends; every submitted work item is
\* eventually completed; a running work item can always take its next
\* step; RunImpl returns only when every work item is completed, each
\* having run once; and no canvas changes after RunImpl has returned.
C8_RunToCompletion ==
  /\ <>(mainpc \in {"returned", "failed"})
  /\ \A k \in 1 .. MaxItems :
       (Len(work) >= k) ~> (Len(work) >= k /\ work_state[k] = "done")
  /\ [](\A w \in Workers : worker[w].item # 0 => ENABLED WorkerStep(w))
  /\ [](Returned => /\ AllDone
                    /\ \A w \in Workers : worker[w].item = 0
                    /\ \A k \in 1 .. Len(work) :
                         Len(performed[k]) = work[k].paste_count)
  /\ [][Returned => output' = output]_vars

\* RunImpl has returned after work items of both samples were run.
C8_Witness ==
  /\ Returned
  /\ Len(work) = 2
  /\ work[1].sample # work[2].sample

(***************************************************************************)
(* Properties of paste::PasteKernel.                                       *)
(***************************************************************************)
\* The flattened positions of block b.
BlockPositions(b) ==
  {y * samples[blocks[b].sample_idx + 1].out_pitch[2] + x :
     y \in blocks[b].start.y .. blocks[b].end.y - 1,
     x \in blocks[b].start.x .. blocks[b].end.x - 1}

\* C9: no output position is ever stored to twice, a position is stored
\* to only by a thread of the block that contains it, and when every
\* thread of the launch has finished every position of every block has
\* been stored to once, by one thread of that block.
C9_WriteExclusivityCoverage ==
  /\ \A s \in DOMAIN k_writers : \A e \in Positions :
       /\ Len(k_writers[s][e]) <= 1
       /\ \A n \in 1 .. Len(k_writers[s][e]) :
            LET b == k_writers[s][e][n][1]
            IN blocks[b].sample_idx + 1 = s /\ e \in BlockPositions(b)
  /\ KernelDone =>
       \A b \in 1 .. Len(blocks) : \A e \in BlockPositions(b) :
         /\ Len(k_writers[blocks[b].sample_idx + 1][e]) = 1
         /\ k_writers[blocks[b].sample_idx + 1][e][1][1] = b

\* A launch of two samples, two blocks each and two threads in x per block
\* has finished.
C9_Witness ==
  /\ KernelDone
  /\ Len(blocks) = 4
  /\ blockDim = <<2, 1>>

\* The cells of sample descriptor sd (from 0) whose rectangle
\* [cell_start, cell_end) contains (y, x).
CellsContaining(sd, y, x) ==
  {g \in 0 .. sd.cell_counts[1] * sd.cell_counts[2] - 1 :
     LET c == grid_cells[CellIndex(sd, g)]
     IN /\ c.cell_start[1] <= y /\ y < c.cell_end[1]
        /\ c.cell_start[2] <= x /\ x < c.cell_end[2]}

\* C10: for every position a thread is about to store, the cell the
\* cursors select is the one cell of the sample whose rectangle contains
\* the position.
C10_CellLookup ==
  \A l \in 1 .. Lanes : lane[l].pc = "run" =>
    LET th == lane[l]
        sd == samples[blocks[th.b].sample_idx + 1]
    IN CellsContaining(sd, th.y, th.x) =
         {th.grid_y * sd.cell_counts[2] + GridX(th)}

\* A thread in the second grid row whose column cursor has to pass two
\* cells at once.
C10_Witness ==
  \E l \in 1 .. Lanes :
    /\ lane[l].pc = "run"
    /\ lane[l].grid_y = 1
    /\ GridX(lane[l]) = lane[l].grid_x + 2

(***************************************************************************)
(* Properties of the type dispatch and of the argument checks of           *)
(* MultiPasteCpu.                                                          *)
(***************************************************************************)
\* No canvas was zeroed, no work item submitted or run, no element written.
NothingDone ==
  /\ zeroed = {}
  /\ work = <<>>
  /\ \A w \in Workers : worker[w].item = 0
  /\ \A s \in Samples : \A e \in Elems : output[s][e] = Uninit

\* C16: once SetupImpl has run, the output type is the dtype argument when
\* it is set and the input type otherwise; and when the input type or that
\* output type is not one of uint8, int16, int32, float, the operator has
\* failed with no canvas zeroed and no work item submitted or run.
C16_UnsupportedTypesFailFast ==
  mainpc # "setup" =>
    /\ output_type_arg # NoType => output_type = output_type_arg
    /\ output_type_arg = NoType => output_type = input_type
    /\ (input_type \notin SupportedTypes \/ output_type \notin SupportedTypes)
         => mainpc = "failed" /\ NothingDone

\* The dtype argument is not set, the input type is float64 and became the
\* output type, and the operator failed.
C16_Witness ==
  /\ mainpc = "failed"
  /\ output_type_arg = NoType
  /\ input_type = "float64"
  /\ output_type = "float64"
  /\ ArgumentsValid

CellAt(sd, y, x) ==
  grid_cells[CellIndex(sd, CHOOSE g \in CellsContaining(sd, y, x) : TRUE)]

\* C11: every position (y, x) the kernel has stored holds 0 when its cell
\* has no source, with nothing read through the cell's source pointer and
\* its pitch not used; otherwise it holds the saturating conversion of the
\* source element at (y - cell_start.y + in_anchor.y) * in_pitch
\* + (x - cell_start.x + in_anchor.x), the only element read for it.
C11_PixelValue ==
  \A s \in DOMAIN k_out : \A e \in Positions :
    k_writers[s][e] # <<>> =>
      LET sd == samples[s]
          y == e \div sd.out_pitch[2]
          x == e % sd.out_pitch[2]
          c == CellAt(sd, y, x)
          idx == (y - c.cell_start[1] + c.in_anchor[1]) * c.in_pitch[2]
                 + (x - c.cell_start[2] + c.in_anchor[2])
      IN IF c.in = 0
         THEN k_out[s][e] = 0 /\ k_reads[s][e] = {}
         ELSE /\ k_out[s][e] = ConvertSat(k_type, KInElem(c.in, idx))
              /\ k_reads[s][e] =
                   {[in |-> c.in, off |-> idx, pitch |-> c.in_pitch[2]]}

\* A finished launch that stored a background position and, in the second
\* row of a canvas, a position whose source element lies in the second row
\* of its image.
C11_Witness ==
  /\ KernelDone
  /\ \E s \in DOMAIN k_out : \E e \in Positions :
       k_writers[s][e] # <<>> /\ k_reads[s][e] = {} /\ k_out[s][e] = 0
  /\ \E s \in DOMAIN k_out : \E e \in Positions :
       /\ e >= samples[s].out_pitch[2]
       /\ \E r \in k_reads[s][e] : r.off >= r.pitch

\* C18: a stored source value lies in the range of the output type: a
\* value above the range is stored as the largest value of the type (300
\* as 255 in uint8, not as 44), a value below it as the smallest (a
\* negative value as 0 in uint8), a value inside the range unchanged.
C18_Saturation ==
  \A s \in DOMAIN k_out : \A e \in Positions : \A r \in k_reads[s][e] :
    LET v == KInElem(r.in, r.off)
        stored == k_out[s][e]
    IN /\ TypeMin(k_type) <= stored /\ stored <= TypeMax(k_type)
       /\ v > TypeMax(k_type) => stored = TypeMax(k_type)
       /\ v < TypeMin(k_type) => stored = TypeMin(k_type)
       /\ (TypeMin(k_type) <= v /\ v <= TypeMax(k_type)) => stored = v
       /\ (k_type = "uint8" /\ v = 300) => stored = 255 /\ stored # 44

\* A uint8 canvas holds 255 where the source element is 300 and 0 where the
\* source element is negative.
C18_Witness ==
  /\ k_type = "uint8"
  /\ \E s \in DOMAIN k_out : \E e \in Positions : \E r \in k_reads[s][e] :
       KInElem(r.in, r.off) = 300 /\ k_out[s][e] = 255
  /\ \E s \in DOMAIN k_out : \E e \in Positions : \E r \in k_reads[s][e] :
       KInElem(r.in, r.off) < 0 /\ k_out[s][e] = 0

\* Lane l executes the same thread before and after the step.
SameThread(l) ==
  /\ lane[l].pc = "run"
  /\ lane'[l].pc = "run"
  /\ lane'[l].b = lane[l].b
  /\ lane'[l].tx = lane[l].tx
  /\ lane'[l].ty = lane[l].ty

\* C19 as stated: during a thread's scan of its block neither grid_y nor
\* grid_x is ever moved backward.
C19_CursorsOnlyAdvance ==
  [][\A l \in 1 .. Lanes :
       SameThread(l) => /\ lane'[l].grid_y >= lane[l].grid_y
                        /\ lane'[l].grid_x >= lane[l].grid_x]_vars

\* C19 as amended: during a thread's scan of its block grid_y is never
\* moved backward and stays below the number of grid rows; grid_x is never
\* moved backward within one output row, restarts from min_grid_x at the
\* head of every row, and stays below the number of grid columns.
C19_CursorsAdvanceWithinRow ==
  [][\A l \in 1 .. Lanes :
       SameThread(l) =>
         LET sd == samples[blocks[lane[l].b].sample_idx + 1]
         IN /\ lane'[l].grid_y >= lane[l].grid_y
            /\ lane'[l].grid_y < sd.cell_counts[1]
            /\ lane'[l].y = lane[l].y => lane'[l].grid_x >= lane[l].grid_x
            /\ lane'[l].y # lane[l].y => lane'[l].grid_x = lane[l].min_grid_x
            /\ lane'[l].grid_x >= lane[l].min_grid_x
            /\ GridX(lane[l]) < sd.cell_counts[2]]_vars

\* A thread past its first output row, in the second grid row, with grid_x
\* advanced beyond min_grid_x in this row.
C19_Witness ==
  \E l \in 1 .. Lanes :
    /\ lane[l].pc = "run"
    /\ lane[l].y > lane[l].ty + blocks[lane[l].b].start.y
    /\ lane[l].grid_y = 1
    /\ lane[l].grid_x > lane[l].min_grid_x

\* The cell indices (from 0) of sample descriptor sd.
SampleRange(sd) == 0 .. sd.cell_counts[1] * sd.cell_counts[2] - 1

\* C20: every cell index a thread reads lies inside its sample's range: in
\* the scan for min_grid_x of every thread issued so far, and in the two
\* cursor loops of the threads that are running; and no scan ended in a
\* fault.
C20_CursorInBounds ==
  /\ ~k_fault
  /\ \A t \in 0 .. k_next - 1 :
       MinGridX(t) \in SampleRange(samples[blocks[KThread(t).b].sample_idx + 1])
  /\ \A l \in 1 .. Lanes : lane[l].pc = "run" =>
       LET th == lane[l]
           sd == samples[blocks[th.b].sample_idx + 1]
       IN /\ th.grid_y * sd.cell_counts[2] \in SampleRange(sd)
          /\ GridX(th) >= 0
          /\ th.grid_y * sd.cell_counts[2] + GridX(th) \in SampleRange(sd)

(***************************************************************************)
(* Properties of kernels::PasteGPU.                                        *)
(***************************************************************************)
\* The step is a call of Setup, or of Run.
SetupStep == e_calls' = e_calls + 1 /\ e_call'.op = "Setup"
RunStep == e_calls' = e_calls + 1 /\ e_call'.op = "Run"

\* Two images of batch b differ in their channel counts.
ChannelMismatch(b) ==
  \E j, k \in 1 .. NumSamples(b) : b.chan[j] # b.chan[k]

\* C12: after a Run that returned on a batch whose images all have C
\* channels, every sample descriptor has the output row pitch width x C,
\* and every cell descriptor has the column components of cell_start,
\* cell_end and in_anchor multiplied by C, the row components as given, and
\* for a cell with a source the source row pitch source width x C.
C12_ChannelPitchScaling ==
  (e_call.op = "Run" /\ e_result = "ok" /\ ~ChannelMismatch(e_call.batch)
   /\ NumSamples(e_call.batch) <= Len(sample_descriptors)
   /\ NumCells(e_call.batch) <= Len(grid_cell_descriptors)) =>
    LET b == e_call.batch
        C == b.chan[1]
    IN /\ \A n \in 1 .. NumSamples(b) :
            sample_descriptors[n].out_pitch[2] = EOutWidth(n - 1) * C
       /\ \A k \in 1 .. NumCells(b) :
            LET c == ECellInputs(b)[k]
                d == grid_cell_descriptors[k]
            IN /\ d.cell_start = <<c.cell_start[1], c.cell_start[2] * C>>
               /\ d.cell_end = <<c.cell_end[1], c.cell_end[2] * C>>
               /\ d.in_anchor = <<c.in_anchor[1], c.in_anchor[2] * C>>
               /\ c.input_idx # -1 =>
                    d.in_pitch[2] = EInWidth(c.input_idx) * C

\* C13: a Setup on a batch in which two images differ in their channel
\* counts fails, and leaves the descriptor vectors, the block setup, the
\* reported sizes, the scratchpad and the number of launches as they were.
C13_ChannelValidation ==
  [][(SetupStep /\ ChannelMismatch(e_call'.batch)) =>
       /\ e_result' = "error"
       /\ e_written' = NoneWritten
       /\ UNCHANGED <<sample_descriptors, grid_cell_descriptors, block_setup,
                      scratch_sizes, scratch, launches>>]_vars

\* A Setup on two images with different channel counts has failed on an
\* object that was set up and run for one sample before.
C13_Witness ==
  /\ e_call.op = "Setup"
  /\ ChannelMismatch(e_call.batch)
  /\ e_result = "error"
  /\ Len(sample_descriptors) = 1
  /\ launches = 1

\* C14: a Setup that returns on a batch of N samples and M grid cells
\* reports N sample descriptors, M grid-cell descriptors and as many block
\* descriptors as the block setup has blocks, and sizes the descriptor
\* vectors to N and M; a Run on N samples and M cells with scratch of the
\* sizes the last Setup reported returns, launches the kernel and writes
\* the descriptor indices below N and below M only.
C14_ScratchSizing ==
  [][/\ (SetupStep /\ e_result' = "ok") =>
          /\ scratch_sizes' = <<NumSamples(e_call'.batch),
                                NumCells(e_call'.batch), block_setup'>>
          /\ Len(sample_descriptors') = NumSamples(e_call'.batch)
          /\ Len(grid_cell_descriptors') = NumCells(e_call'.batch)
     /\ (RunStep /\ scratch_sizes # <<0, 0, 0>>
         /\ NumSamples(e_call'.batch) = scratch_sizes[1]
         /\ NumCells(e_call'.batch) = scratch_sizes[2]
         /\ e_call'.scratch = scratch_sizes) =>
          /\ e_result' = "ok"
          /\ launches' = launches + 1
          /\ e_written'.samples = 1 .. scratch_sizes[1]
          /\ e_written'.cells = 1 .. scratch_sizes[2]
          /\ Len(scratch'.samples) = scratch_sizes[1]
          /\ Len(scratch'.cells) = scratch_sizes[2]
          /\ scratch'.blocks = scratch_sizes[3]]_vars

\* A Run on two samples and three grid cells has returned with scratch of
\* exactly the sizes the Setup before it reported.
C14_Witness ==
  /\ e_call.op = "Run"
  /\ e_result = "ok"
  /\ NumSamples(e_call.batch) = 2
  /\ NumCells(e_call.batch) = 3
  /\ scratch_sizes[1] = 2
  /\ scratch_sizes[2] = 3
  /\ e_call.scratch = scratch_sizes
  /\ e_written = [samples |-> 1 .. 2, cells |-> 1 .. 3]

\* C15: a Run with more samples or more grid cells than the descriptor
\* vectors hold, or with scratch smaller than the last Setup reported, is
\* rejected with no descriptor written, nothing copied to the scratchpad
\* and no kernel launched.
C15_UndersizedRejected ==
  [][(RunStep
      /\ \/ NumSamples(e_call'.batch) > Len(sample_descriptors)
         \/ NumCells(e_call'.batch) > Len(grid_cell_descriptors)
         \/ \E k \in 1 .. 3 : e_call'.scratch[k] < scratch_sizes[k]) =>
       /\ e_result' \in {"error", "abort"}
       /\ e_written' = NoneWritten
       /\ UNCHANGED <<sample_descriptors, grid_cell_descriptors, scratch,
                      launches>>]_vars

\* C21: after a Run that returned, every grid cell of the batch whose input
\* index is -1 is packed with the null source pointer and the source pitch
\* -1, and every other cell with the pointer of the image it refers to.
C21_BackgroundCellPacking ==
  (e_call.op = "Run" /\ e_result = "ok"
   /\ NumCells(e_call.batch) <= Len(grid_cell_descriptors)) =>
    \A k \in 1 .. NumCells(e_call.batch) :
      LET c == ECellInputs(e_call.batch)[k]
          d == grid_cell_descriptors[k]
      IN IF c.input_idx = -1
         THEN d.in = 0 /\ d.in_pitch[2] = -1
         ELSE d.in = c.input_idx + 1

\* A Run returned on the batch that the last Setup sized the descriptor
\* vectors for.
CycleDone ==
  /\ e_call.op = "Run"
  /\ e_result = "ok"
  /\ NumSamples(e_call.batch) = Len(sample_descriptors)
  /\ NumCells(e_call.batch) = Len(grid_cell_descriptors)

\* C22: after any calls of Setup and Run, the descriptors a Run hands to
\* the kernel for the batch the vectors were sized for are what the batch
\* of this Run alone determines: pointers, start indices, cell counts,
\* cell rectangles, anchors and the second components of the pitches from
\* its inputs, the first components of the pitches 0.
C22_DescriptorsRebuilt ==
  CycleDone =>
    LET b == e_call.batch
        ch == RunChannels(b)
    IN /\ scratch.samples =
            [n \in 1 .. NumSamples(b) |->
               [out |-> n,
                grid_cell_start_idx |-> CellsBefore(b, n),
                cell_counts |-> <<1, b.cells[n]>>,
                out_pitch |-> <<0, EOutWidth(n - 1) * ch>>]]
       /\ scratch.cells =
            [k \in 1 .. NumCells(b) |->
               LET c == ECellInputs(b)[k]
               IN [in |-> IF c.input_idx = -1 THEN 0 ELSE c.input_idx + 1,
                   cell_start |-> <<c.cell_start[1], c.cell_start[2] * ch>>,
                   cell_end |-> <<c.cell_end[1], c.cell_end[2] * ch>>,
                   in_anchor |-> <<c.in_anchor[1], c.in_anchor[2] * ch>>,
                   in_pitch |-> <<0, (IF c.input_idx = -1 THEN -1
                                      ELSE EInWidth(c.input_idx)) * ch>>]]

\* The second Run in a row on an object whose vectors hold the descriptors
\* of the Run before, which was on a batch with other grid cells.
C22_Witness ==
  /\ CycleDone
  /\ launches >= 2
  /\ e_calls = 3
  /\ NumCells(e_call.batch) = 2
  /\ e_call.batch.cells = <<2>>

\* Some named argument is defined.
AnyNamed == \E a \in ArgNames : s_has[a]

\* C23: the constructor fails exactly when one of end/rel_end is given
\* together with one of shape/rel_shape; ProcessArguments installs the
\* generator of the named arguments when one is defined and the workspace
\* has exactly 1 input, the generator of the positional inputs only when
\* none is defined and the workspace has exactly 3 inputs, and fails in
\* every other case.
C23_ArgumentCompatibility ==
  /\ s_pc \notin {"off", "new"} =>
       (s_pc = "ctor_error" <=>
          /\ s_has["end"] \/ s_has["rel_end"]
          /\ s_has["shape"] \/ s_has["rel_shape"])
  /\ s_pc \in {"processed", "proc_error", "generated"} =>
       /\ s_mode = "named" <=> (AnyNamed /\ s_ninput = 1)
       /\ s_mode = "positional" => (~AnyNamed /\ s_ninput = 3)
       /\ (~(AnyNamed /\ s_ninput = 1) /\ ~(~AnyNamed /\ s_ninput = 3))
            => s_pc = "proc_error"

\* ProcessArguments failed on named arguments that the constructor took,
\* on a workspace with the three inputs of the positional form.
C23_Witness ==
  /\ s_pc = "proc_error"
  /\ s_has["rel_start"]
  /\ s_has["rel_shape"]
  /\ s_ninput = 3

\* The generator returned a window.
WindowReturned == s_pc = "generated" /\ s_status = "ok"

\* C24: a window the generator returns without error has a non-negative
\* extent on every listed axis, and anchor 0 and the extent of the input
\* on every axis that is not listed.
C24_WindowExtents ==
  WindowReturned =>
    \A d \in 1 .. NDim :
      IF Listed(s_axes, d)
      THEN s_window.shape[d] >= 0
      ELSE s_window.anchor[d] = 0 /\ s_window.shape[d] = s_in_shape[d]

\* C25: a call of the generator whose anchor value or end coordinate lies
\* outside [i64min, i64max] on some listed axis ends with an error and
\* returns no window, with named arguments and with positional inputs.
C25_OutOfRangeRejected ==
  s_pc = "generated" =>
    LET vals == AxisValues(s_mode, s_has, s_named, s_pos, s_norm, s_axes,
                           s_in_shape)
    IN (\E ax \in DOMAIN vals :
          \/ vals[ax].anchor_val < i64min
          \/ vals[ax].anchor_val > i64max
          \/ vals[ax].end_val < i64min
          \/ vals[ax].end_val > i64max)
         => (s_status = "error" /\ s_window = NoWindow)

=============================================================================
